---- MODULE Spec2Model ----
(***************************************************************************)
(* Model of static/client-logger.js: the browser error reporter (truncate, *)
(* send, buildPayload and the two window listeners), the lesson-select     *)
(* refresh of the attendance page (updateLessonOptions) and the /client-logs*)
(* rate limiter that OBSERVABILITY.md configures.                           *)
(*                                                                         *)
(* A JavaScript string is a sequence of UTF-16 code units (naturals).      *)
(* A JavaScript value is a record tagged by its type in field t.           *)
(* An operation that can throw returns [thrown |-> BOOLEAN, v |-> value].  *)
(***************************************************************************)
EXTENDS Integers, Sequences, FiniteSets, TLC

\* ------------------------------------------------------------------------
\* Bounds of the model
\* ------------------------------------------------------------------------
MaxOver == 1        \* input strings are up to MAX_MESSAGE_LENGTH + MaxOver long
MaxEvents == 2      \* window events dispatched in one behaviour
EventGapMs == 3723004  \* milliseconds from one window event to the next
MaxApplications == 2  \* successive applications of truncate to one value
MaxReports == 12    \* reports the source posts in one behaviour
MaxNow == 61        \* the server's clock stops here (seconds)
MaxRequests == 3    \* schedule requests sent in one behaviour
MaxLessons == 2     \* lessons a schedule response can name

\* ------------------------------------------------------------------------
\* Program constants
\* ------------------------------------------------------------------------
MAX_MESSAGE_LENGTH == 500

\* '…' (U+2026), the one code unit appended by truncate
ELLIPSIS == 8230

\* '/client-logs'
ENDPOINT ==
    <<47, 99, 108, 105, 101, 110, 116, 45, 108, 111, 103, 115>>

\* 'Script error'
ScriptError ==
    <<83, 99, 114, 105, 112, 116, 32, 101, 114, 114, 111, 114>>

\* 'Unhandled promise rejection'
UnhandledRejection ==
    <<85, 110, 104, 97, 110, 100, 108, 101, 100, 32, 112, 114, 111, 109, 105,
      115, 101, 32, 114, 101, 106, 101, 99, 116, 105, 111, 110>>

\* ------------------------------------------------------------------------
\* JavaScript values
\* ------------------------------------------------------------------------
Undefined == [t |-> "undefined"]
Null == [t |-> "null"]
Str(s) == [t |-> "string", s |-> s]
Num(n) == [t |-> "number", n |-> n]
BigIntOne == [t |-> "bigint", n |-> 1]

\* The content of a property whose getter throws when it is read.
Thrower == [t |-> "getter-throws"]

\* An object with the two properties the listeners read and the outcome of
\* converting it to a string: toStr is a string value, or Thrower for an
\* object that has no usable toString (Object.create(null)).
Obj(message, stack, toStr) ==
    [t |-> "object", message |-> message, stack |-> stack, toStr |-> toStr]

Ok(v) == [thrown |-> FALSE, v |-> v]
Throw == [thrown |-> TRUE, v |-> Undefined]

\* typeof v
TypeOf(v) ==
    IF v.t = "null" THEN "object" ELSE v.t

\* ToBoolean(v): what `if (v)`, `v || w`, `v && w` and `v ? a : b` test
Truthy(v) ==
    CASE v.t = "undefined" -> FALSE
      [] v.t = "null" -> FALSE
      [] v.t = "string" -> Len(v.s) > 0
      [] v.t = "number" -> v.n # 0
      [] v.t = "bigint" -> v.n # 0
      [] OTHER -> TRUE

\* a || b
OrElse(a, b) ==
    IF Truthy(a) THEN a ELSE b

\* v.message / v.stack : a property read. Reading a property of undefined or
\* null throws; a primitive has neither property; an object's getter may throw.
Get(v, prop) ==
    CASE v.t \in {"undefined", "null"} -> Throw
      [] v.t = "object" ->
            LET slot == IF prop = "message" THEN v.message ELSE v.stack
            IN  IF slot = Thrower THEN Throw ELSE Ok(slot)
      [] OTHER -> Ok(Undefined)

\* decimal digits of a natural number
RECURSIVE Digits(_)
Digits(n) ==
    IF n < 10 THEN <<48 + n>> ELSE Digits(n \div 10) \o <<48 + (n % 10)>>

\* n in decimal, left-padded with '0' to width w
RECURSIVE Pad(_, _)
Pad(n, w) ==
    IF w <= 1 THEN Digits(n)
    ELSE IF Len(Digits(n)) >= w THEN Digits(n)
    ELSE <<48>> \o Pad(n, w - 1)

\* String(v)
StringOf(v) ==
    CASE v.t = "string" -> Ok(v)
      [] v.t = "number" -> Ok(Str(Digits(v.n)))
      [] v.t = "bigint" -> Ok(Str(Digits(v.n)))
      [] v.t = "undefined" -> Ok(Str(<<117, 110, 100, 101, 102, 105, 110, 101, 100>>))
      [] v.t = "null" -> Ok(Str(<<110, 117, 108, 108>>))
      [] OTHER -> IF v.toStr = Thrower THEN Throw ELSE Ok(v.toStr)

\* new Date(ms).toISOString() for an instant of 1970-01-01 (ms < 86400000):
\* YYYY-MM-DDTHH:mm:ss.sssZ
toISOString(ms) ==
    <<49, 57, 55, 48, 45, 48, 49, 45, 48, 49, 84>>
        \o Pad((ms \div 3600000) % 24, 2) \o <<58>>
        \o Pad((ms \div 60000) % 60, 2) \o <<58>>
        \o Pad((ms \div 1000) % 60, 2) \o <<46>>
        \o Pad(ms % 1000, 3) \o <<90>>

\* ------------------------------------------------------------------------
\* truncate (client-logger.js 6-11)
\* ------------------------------------------------------------------------
\* Faulty variant of truncate: the slice keeps one code unit too few.
truncate_ShortSlice(value) ==
    IF TypeOf(value) # "string" THEN value
    ELSE IF Len(value.s) > MAX_MESSAGE_LENGTH
         THEN Str(SubSeq(value.s, 1, MAX_MESSAGE_LENGTH - 1) \o <<ELLIPSIS>>)
         ELSE value

\* Faulty variant of truncate: a string of exactly the maximum length is cut.
truncate_AtLimit(value) ==
    IF TypeOf(value) # "string" THEN value
    ELSE IF Len(value.s) >= MAX_MESSAGE_LENGTH
         THEN Str(SubSeq(value.s, 1, MAX_MESSAGE_LENGTH) \o <<ELLIPSIS>>)
         ELSE value

truncate(value) ==
    IF TypeOf(value) # "string" THEN value
    ELSE IF Len(value.s) > MAX_MESSAGE_LENGTH
         THEN Str(SubSeq(value.s, 1, MAX_MESSAGE_LENGTH) \o <<ELLIPSIS>>)
         ELSE value


\* ------------------------------------------------------------------------
\* buildPayload (client-logger.js 32-42)
\* env is what the function reads from the page: window.location.href,
\* navigator.userAgent and the clock behind new Date().
\* ------------------------------------------------------------------------
\* Faulty variant of buildPayload: the stack is not converted with String().
buildPayload_RawStack(level, message, metadata, env) ==
    Ok([level |-> level,
        message |-> truncate(OrElse(message, Str(<<>>))),
        url |-> env.href,
        ua |-> env.userAgent,
        ts |-> Str(toISOString(env.now)),
        stack |-> truncate(OrElse(metadata.stack, Str(<<>>))),
        extra |-> IF Truthy(metadata.extra) THEN metadata.extra ELSE Undefined])

buildPayload(level, message, metadata, env) ==
    LET stk == IF Truthy(metadata.stack)
               THEN StringOf(metadata.stack)
               ELSE Ok(Str(<<>>))
    IN  IF stk.thrown THEN Throw
        ELSE Ok([level |-> level,
                 message |-> truncate(OrElse(message, Str(<<>>))),
                 url |-> env.href,
                 ua |-> env.userAgent,
                 ts |-> Str(toISOString(env.now)),
                 stack |-> truncate(stk.v),
                 extra |-> IF Truthy(metadata.extra)
                           THEN metadata.extra ELSE Undefined])

\* 'error', the level both listeners pass
LevelError == <<101, 114, 114, 111, 114>>

\* ------------------------------------------------------------------------
\* The 'error' listener (client-logger.js 44-54): the arguments it passes to
\* buildPayload, or Throw when evaluating them throws.
\* ------------------------------------------------------------------------
onError(event) ==
    LET message == OrElse(event.message, Str(ScriptError))
        stack == IF Truthy(event.error)
                 THEN Get(event.error, "stack")
                 ELSE Ok(event.error)
    IN  IF stack.thrown THEN Throw
        ELSE Ok([message |-> message,
                 metadata |-> [stack |-> stack.v,
                               extra |-> [t |-> "object",
                                          filename |-> event.filename,
                                          lineno |-> event.lineno,
                                          colno |-> event.colno]]])

\* ------------------------------------------------------------------------
\* The 'unhandledrejection' listener (client-logger.js 56-69): the arguments
\* it passes to buildPayload, or Throw when a read of the reason throws.
\* ------------------------------------------------------------------------
\* Faulty variant of the listener: the reason's message is never read.
onUnhandledRejection_NoMessage(event) ==
    LET reason == event.reason
        message == IF Truthy(reason) /\ TypeOf(reason) = "string" THEN reason
                   ELSE Str(UnhandledRejection)
        stkRead == IF Truthy(reason) THEN Get(reason, "stack") ELSE Ok(Undefined)
        stack == IF Truthy(reason) /\ Truthy(stkRead.v) THEN stkRead.v ELSE Str(<<>>)
    IN  IF stkRead.thrown THEN Throw
        ELSE Ok([message |-> message,
                 metadata |-> [stack |-> stack, extra |-> Undefined]])

onUnhandledRejection(event) ==
    LET reason == event.reason
        msgRead == IF Truthy(reason) /\ TypeOf(reason) # "string"
                   THEN Get(reason, "message")
                   ELSE Ok(Undefined)
        message == IF ~Truthy(reason) THEN Str(UnhandledRejection)
                   ELSE IF TypeOf(reason) = "string" THEN reason
                   ELSE IF Truthy(msgRead.v) THEN msgRead.v
                   ELSE Str(UnhandledRejection)
        stkRead == IF Truthy(reason) THEN Get(reason, "stack") ELSE Ok(Undefined)
        stack == IF Truthy(reason) /\ Truthy(stkRead.v) THEN stkRead.v ELSE Str(<<>>)
    IN  IF msgRead.thrown \/ stkRead.thrown THEN Throw
        ELSE Ok([message |-> message,
                 metadata |-> [stack |-> stack, extra |-> Undefined]])

\* ------------------------------------------------------------------------
\* send (client-logger.js 13-30)
\* ------------------------------------------------------------------------
\* JSON.stringify(payload): throws a TypeError on a BigInt; a property whose
\* value is undefined is left out of the text.
JSONstringify(payload) ==
    IF \E k \in DOMAIN payload : payload[k].t = "bigint" THEN Throw
    ELSE Ok([k \in {f \in DOMAIN payload : payload[f] # Undefined} |-> payload[k]])

\* The try block of send (lines 15-26). out is what the browser does with the
\* calls: out.blob for new Blob, out.beacon for navigator.sendBeacon, out.fetch
\* for fetch. chose is the branch taken, calls are the delivery primitives
\* invoked, raised says that the block was left by an exception, promise is
\* the promise chain fetch(...).catch(...) left behind.
\* Faulty variant of the try block: a sendBeacon that returns false is
\* followed by the fetch.
sendTry_Fallback(payload, nav, out) ==
    LET body == JSONstringify(payload)
        beaconCall == [api |-> "sendBeacon", url |-> ENDPOINT,
                       type |-> "application/json", body |-> body.v]
        fetchCall == [api |-> "fetch", url |-> ENDPOINT, method |-> "POST",
                      type |-> "application/json", body |-> body.v,
                      keepalive |-> TRUE]
    IN  IF body.thrown
        THEN [chose |-> "none", calls |-> <<>>, raised |-> TRUE, promise |-> "none"]
        ELSE IF nav.sendBeacon /\ out.blob = "throws"
        THEN [chose |-> "sendBeacon", calls |-> <<>>, raised |-> TRUE,
              promise |-> "none"]
        ELSE IF nav.sendBeacon /\ out.beacon = "false"
        THEN [chose |-> "sendBeacon", calls |-> <<beaconCall, fetchCall>>,
              raised |-> FALSE, promise |-> "caught"]
        ELSE IF nav.sendBeacon
        THEN [chose |-> "sendBeacon", calls |-> <<beaconCall>>,
              raised |-> out.beacon = "throws", promise |-> "none"]
        ELSE [chose |-> "fetch", calls |-> <<fetchCall>>,
              raised |-> out.fetch # "promise",
              promise |-> IF out.fetch = "promise" THEN "caught" ELSE "none"]

sendTry(payload, nav, out) ==
    LET body == JSONstringify(payload)
        beaconCall == [api |-> "sendBeacon", url |-> ENDPOINT,
                       type |-> "application/json", body |-> body.v]
        fetchCall == [api |-> "fetch", url |-> ENDPOINT, method |-> "POST",
                      type |-> "application/json", body |-> body.v,
                      keepalive |-> TRUE]
    IN  IF body.thrown
        THEN [chose |-> "none", calls |-> <<>>, raised |-> TRUE, promise |-> "none"]
        ELSE IF nav.sendBeacon
        THEN IF out.blob = "throws"
             THEN [chose |-> "sendBeacon", calls |-> <<>>, raised |-> TRUE,
                   promise |-> "none"]
             ELSE [chose |-> "sendBeacon", calls |-> <<beaconCall>>,
                   raised |-> out.beacon = "throws", promise |-> "none"]
        ELSE CASE out.fetch = "missing" ->
                    [chose |-> "fetch", calls |-> <<>>, raised |-> TRUE,
                     promise |-> "none"]
               [] out.fetch = "throws" ->
                    [chose |-> "fetch", calls |-> <<fetchCall>>, raised |-> TRUE,
                     promise |-> "none"]
               [] OTHER ->
                    [chose |-> "fetch", calls |-> <<fetchCall>>, raised |-> FALSE,
                     promise |-> "caught"]

\* Faulty variant of send: no catch clause, an exception of the try block
\* leaves send.
send_NoCatch(payload, nav, out) ==
    LET r == sendTry(payload, nav, out)
    IN  [chose |-> r.chose, calls |-> r.calls, raised |-> r.raised,
         promise |-> r.promise, escaped |-> r.raised]

\* Faulty variant of send: the fetch promise gets no catch handler.
send_BareFetch(payload, nav, out) ==
    LET r == sendTry(payload, nav, out)
    IN  [chose |-> r.chose, calls |-> r.calls, raised |-> r.raised,
         promise |-> IF r.promise = "none" THEN "none" ELSE "bare",
         escaped |-> FALSE]

\* send: the try block under catch (err) {} (lines 27-29): nothing escapes.
send(payload, nav, out) ==
    LET r == sendTry(payload, nav, out)
    IN  [chose |-> r.chose, calls |-> r.calls, raised |-> r.raised,
         promise |-> r.promise, escaped |-> FALSE]

\* No call of send: the listener threw before it.
NotSent ==
    [chose |-> "none", calls |-> <<>>, raised |-> FALSE, promise |-> "none",
     escaped |-> FALSE]

\* ------------------------------------------------------------------------
\* Inputs: the strings, thrown values and rejection reasons a page can raise
\* ------------------------------------------------------------------------
\* n code units, a different letter at neighbouring positions
Text(n) == [i \in 1..n |-> 97 + (i % 7)]

\* Text(n) with the code unit at position p replaced by '…'
TextWithEllipsis(n, p) == [i \in 1..n |-> IF i = p THEN ELLIPSIS ELSE 97 + (i % 7)]

LongLengths == (MAX_MESSAGE_LENGTH + 1)..(MAX_MESSAGE_LENGTH + MaxOver)

\* n code units, all of them '…'
Ellipses(n) == [i \in 1..n |-> ELLIPSIS]

\* Lengths around the limit, short ones, and twice the limit
InputLengths ==
    {0, 1, 2, MAX_MESSAGE_LENGTH \div 2, MAX_MESSAGE_LENGTH - 1,
     MAX_MESSAGE_LENGTH, 2 * MAX_MESSAGE_LENGTH} \cup LongLengths

\* Strings of those lengths: plain text, text that already holds a '…' (as
\* its first code unit, at the limit, right after the limit, or as its last
\* code unit), and strings made of '…' only.
InputStrings ==
    {Text(n) : n \in InputLengths}
    \cup {TextWithEllipsis(n, p) :
            n \in InputLengths \ {0},
            p \in {1, MAX_MESSAGE_LENGTH, MAX_MESSAGE_LENGTH + 1, 2 * MAX_MESSAGE_LENGTH}}
    \cup {TextWithEllipsis(n, n) : n \in InputLengths \ {0}}
    \cup {Ellipses(n) : n \in InputLengths \ {0}}

\* The strings the window events of the model carry
EventStrings ==
    {Text(n) : n \in {0, 2, MAX_MESSAGE_LENGTH} \cup LongLengths}
    \cup {TextWithEllipsis(n, 1) : n \in LongLengths}

\* '[object Object]'
ObjectObject ==
    <<91, 111, 98, 106, 101, 99, 116, 32, 79, 98, 106, 101, 99, 116, 93>>

\* Object.create(null): String() of it throws a TypeError
NullProto == Obj(Undefined, Undefined, Thrower)

\* Values that are not strings
NonStrings ==
    {Undefined, Null, Num(0), Num(42), Num(MAX_MESSAGE_LENGTH + 1), BigIntOne,
     NullProto, Obj(Str(Text(2)), Str(Text(MAX_MESSAGE_LENGTH + 1)), Str(ObjectObject))}

\* What a thrown value can hold as .stack
StackSlots ==
    {Undefined, Thrower, NullProto} \cup {Str(s) : s \in EventStrings}

\* What a rejection reason can hold as .message
MessageSlots ==
    {Undefined, Thrower, Num(42), BigIntOne}
    \cup {Str(Text(n)) : n \in {0, 2, MAX_MESSAGE_LENGTH + 1}}

\* 'a.js'
FileName == <<97, 46, 106, 115>>

\* Thrown values: an object with each kind of .stack
ThrownValues ==
    {Obj(Undefined, st, Str(ObjectObject)) : st \in StackSlots}

\* 'error' events: every message with no error object, every thrown value
\* (objects, a string, a number) with a short message, a synthetic event
\* whose message is missing or a number, and a long message with a long
\* stack.
ErrorEvents ==
    [message : {Str(s) : s \in EventStrings},
     error : {Undefined, Null},
     filename : {Str(FileName)}, lineno : {Num(3)}, colno : {Num(7)}]
    \cup
    [message : {Str(Text(2))},
     error : ThrownValues \cup {Str(Text(2)), Num(5)},
     filename : {Str(FileName)}, lineno : {Num(3)}, colno : {Num(7)}]
    \cup
    [message : {Undefined, Num(42)},
     error : {Undefined},
     filename : {Str(FileName)}, lineno : {Num(3)}, colno : {Num(7)}]
    \cup
    [message : {Str(Text(MAX_MESSAGE_LENGTH + 1))},
     error : {Obj(Undefined, Str(Text(MAX_MESSAGE_LENGTH + 1)), Str(ObjectObject))},
     filename : {Str(FileName)}, lineno : {Num(3)}, colno : {Num(7)}]

\* Rejection reasons: primitives, strings, objects with each kind of .message
\* and no stack, with each kind of .stack and no message, and with both long.
RejectionEvents ==
    [reason : {Undefined, Null, Num(0), Num(5)}
              \cup {Str(s) : s \in EventStrings}
              \cup {Obj(m, Undefined, Str(ObjectObject)) : m \in MessageSlots}
              \cup {Obj(Undefined, st, Str(ObjectObject)) : st \in StackSlots}
              \cup {Obj(Str(Text(MAX_MESSAGE_LENGTH + 1)),
                        Str(Text(MAX_MESSAGE_LENGTH + 1)), Str(ObjectObject))}]

\* 'Failed to fetch': the TypeError a failed fetch rejects with
FailedToFetch ==
    <<70, 97, 105, 108, 101, 100, 32, 116, 111, 32, 102, 101, 116, 99, 104>>

\* What the browser does with the calls of one send
BeaconOutcomes ==
    {[blob |-> "throws", beacon |-> "true", fetch |-> "promise"]}
    \cup [blob : {"ok"}, beacon : {"true", "false", "throws"}, fetch : {"promise"}]

FetchOutcomes ==
    [blob : {"ok"}, beacon : {"true"}, fetch : {"missing", "throws", "promise"}]

\* 'https://okul.example/'
PageUrl ==
    <<104, 116, 116, 112, 115, 58, 47, 47, 111, 107, 117, 108, 46, 101, 120,
      97, 109, 112, 108, 101, 47>>

\* 'Mozilla/5.0'
UserAgent ==
    <<77, 111, 122, 105, 108, 108, 97, 47, 53, 46, 48>>

\* ------------------------------------------------------------------------
\* State of the page that runs client-logger.js
\* ------------------------------------------------------------------------
VARIABLES
    navigator,   \* sendBeacon: whether navigator.sendBeacon exists; userAgent
    location,    \* window.location.href
    clock,       \* milliseconds since the epoch
    last,        \* the latest run of a listener: its event, payload and send
    captured,    \* listener runs so far
    attempts,    \* delivery primitives invoked so far
    pending,     \* the promise chains of fetches that have not settled
    settled,     \* fetch promises settled so far: [resolved, rejected]
    unhandled    \* rejections of the logger's own promises nobody handled

\* State of a run of truncate on one value
VARIABLES
    tValue,      \* the value given to truncate
    tResults     \* truncate(tValue), truncate(truncate(tValue)), ...

\* State of the /client-logs rate limiter for one source address
VARIABLES
    now,         \* seconds on the server's clock
    bucket,      \* the timestamps recorded for the source, oldest first
    calls        \* every report of the source so far: [t, admit]

\* State of the attendance page's lesson select
VARIABLES
    classValue,     \* classSelect.value ("" while no class is selected)
    dateValue,      \* dateInput.value ("" when the date is cleared)
    lessonOptions,  \* the option values of lessonSelect, in document order
    inflight,       \* ids of the schedule requests without a response yet
    issued,         \* schedule requests sent so far; the latest has this id
    latest,         \* what the latest change event led to
    messageDiv      \* the alert shown to the user

truncVars == <<tValue, tResults>>

limiterVars == <<now, bucket, calls>>

scheduleVars ==
    <<classValue, dateValue, lessonOptions, inflight, issued, latest, messageDiv>>

clientVars ==
    <<navigator, location, clock, last, captured, attempts, pending, settled,
      unhandled>>

InitClient ==
    /\ navigator \in [sendBeacon : BOOLEAN, userAgent : {Str(UserAgent)}]
    /\ location = Str(PageUrl)
    /\ clock = 0
    /\ last = [kind |-> "none"]
    /\ captured = 0
    /\ attempts = 0
    /\ pending = <<>>
    /\ settled = [resolved |-> 0, rejected |-> 0]
    /\ unhandled = 0

\* One run of a listener (client-logger.js 44-54, 56-69): evaluate the
\* arguments, build the payload, hand it to send. own says that the event was
\* raised by a rejection of the logger's own fetch promise; left are the
\* promise chains still pending. The next event comes EventGapMs later.
Dispatch(kind, event, out, own, left) ==
    LET env == [href |-> location, userAgent |-> navigator.userAgent, now |-> clock]
        args == IF kind = "error" THEN onError(event)
                ELSE onUnhandledRejection(event)
        built == IF args.thrown THEN Throw
                 ELSE buildPayload(Str(LevelError), args.v.message,
                                   args.v.metadata, env)
        sent == IF built.thrown THEN NotSent ELSE send(built.v, navigator, out)
    IN  /\ last' = [kind |-> kind, event |-> event, own |-> own, out |-> out,
                    at |-> clock,
                    args |-> args,
                    built |-> built,
                    called |-> ~built.thrown,
                    sent |-> sent,
                    threw |-> built.thrown \/ sent.escaped]
        /\ clock' = clock + EventGapMs
        /\ captured' = captured + 1
        /\ attempts' = attempts + Len(sent.calls)
        /\ pending' = IF sent.promise = "none" THEN left
                      ELSE Append(left, sent.promise)

Outcomes ==
    IF navigator.sendBeacon THEN BeaconOutcomes ELSE FetchOutcomes

\* The page raises an 'error' event (an uncaught exception, a failed script).
WindowError ==
    /\ captured < MaxEvents
    /\ \E event \in ErrorEvents, out \in Outcomes :
           Dispatch("error", event, out, FALSE, pending)
    /\ UNCHANGED <<navigator, location, settled, unhandled>>
    /\ UNCHANGED <<truncVars, limiterVars, scheduleVars>>

\* The page raises an 'unhandledrejection' event.
WindowUnhandledRejection ==
    /\ captured < MaxEvents
    /\ \E event \in RejectionEvents, out \in Outcomes :
           Dispatch("unhandledrejection", event, out, FALSE, pending)
    /\ UNCHANGED <<navigator, location, settled, unhandled>>
    /\ UNCHANGED <<truncVars, limiterVars, scheduleVars>>

\* A pending fetch settles. A rejection runs the chain's catch handler
\* (line 25), which returns normally; a rejected promise without a handler is
\* reported by the browser as an 'unhandledrejection' event of the window,
\* which the logger's own listener then captures.
FetchSettles ==
    /\ pending # <<>>
    /\ \E outcome \in {"resolved", "rejected"}, out \in Outcomes :
         IF outcome = "rejected" /\ Head(pending) # "caught"
         THEN /\ unhandled' = unhandled + 1
              /\ settled' = [settled EXCEPT !.rejected = @ + 1]
              /\ Dispatch("unhandledrejection",
                          [reason |-> Obj(Str(FailedToFetch), Str(Text(2)),
                                          Str(FailedToFetch))],
                          out, TRUE, Tail(pending))
         ELSE /\ settled' = [settled EXCEPT ![outcome] = @ + 1]
              /\ pending' = Tail(pending)
              /\ UNCHANGED <<clock, last, captured, attempts, unhandled>>
    /\ UNCHANGED <<navigator, location>>
    /\ UNCHANGED <<truncVars, limiterVars, scheduleVars>>

\* The page before any event, for the behaviours that are about another part
IdleClient ==
    /\ navigator = [sendBeacon |-> TRUE, userAgent |-> Str(UserAgent)]
    /\ location = Str(PageUrl)
    /\ clock = 0
    /\ last = [kind |-> "none"]
    /\ captured = 0
    /\ attempts = 0
    /\ pending = <<>>
    /\ settled = [resolved |-> 0, rejected |-> 0]
    /\ unhandled = 0

IdleTruncate ==
    /\ tValue = Undefined
    /\ tResults = <<>>

IdleLimiter ==
    /\ now = 0
    /\ bucket = <<>>
    /\ calls = <<>>

IdleSchedule ==
    /\ classValue = ""
    /\ dateValue = ""
    /\ lessonOptions = <<>>
    /\ inflight = {}
    /\ issued = 0
    /\ latest = [request |-> 0, answer |-> "none", lessons |-> 0]
    /\ messageDiv = ""

vars == <<clientVars, truncVars, limiterVars, scheduleVars>>

\* The error reporter in a page: window events and fetches settling.
Init ==
    /\ InitClient
    /\ IdleTruncate
    /\ IdleLimiter
    /\ IdleSchedule

Next ==
    \/ WindowError
    \/ WindowUnhandledRejection
    \/ FetchSettles

Spec == Init /\ [][Next]_vars

\* ------------------------------------------------------------------------
\* truncate on its own: a value is drawn, truncate is applied to it and then
\* to its own result.
\* ------------------------------------------------------------------------
InitTruncate ==
    /\ tValue \in {Str(s) : s \in InputStrings} \cup NonStrings
    /\ tResults = <<>>

ApplyTruncate ==
    /\ Len(tResults) < MaxApplications
    /\ tResults' = Append(tResults,
                          truncate(IF tResults = <<>> THEN tValue
                                   ELSE tResults[Len(tResults)]))
    /\ UNCHANGED tValue
    /\ UNCHANGED <<clientVars, limiterVars, scheduleVars>>

TruncateInit ==
    /\ InitTruncate
    /\ IdleClient
    /\ IdleLimiter
    /\ IdleSchedule

TruncateNext ==
    ApplyTruncate

TruncateSpec == TruncateInit /\ [][TruncateNext]_vars

\* ------------------------------------------------------------------------
\* The rate limiter of POST /client-logs (OBSERVABILITY.md 16-17, 36-37)
\* ------------------------------------------------------------------------
CLIENT_LOG_RATE_LIMIT == 10

CLIENT_LOG_WINDOW_SECONDS == 60

\* Faulty variant of admit: a rejected report is recorded too.
admit_RecordsRejected(recorded, t) ==
    LET kept == SelectSeq(recorded, LAMBDA ts : ts >= t - CLIENT_LOG_WINDOW_SECONDS)
    IN  [admit |-> Len(kept) < CLIENT_LOG_RATE_LIMIT, bucket |-> Append(kept, t)]

\* admit(sourceId, now) on the source's bucket: the timestamps older than
\* now - window are discarded; with fewer than limit left the new timestamp
\* is recorded and the report admitted, else it is rejected and not recorded.
admit(recorded, t) ==
    LET kept == SelectSeq(recorded, LAMBDA ts : ts >= t - CLIENT_LOG_WINDOW_SECONDS)
    IN  IF Len(kept) < CLIENT_LOG_RATE_LIMIT
        THEN [admit |-> TRUE, bucket |-> Append(kept, t)]
        ELSE [admit |-> FALSE, bucket |-> kept]

InitLimiter ==
    /\ now = 0
    /\ bucket = <<>>
    /\ calls = <<>>

\* The source posts a report to /client-logs.
Report ==
    /\ Len(calls) < MaxReports
    /\ LET r == admit(bucket, now)
       IN  /\ bucket' = r.bucket
           /\ calls' = Append(calls, [t |-> now, admit |-> r.admit])
    /\ UNCHANGED now
    /\ UNCHANGED <<clientVars, truncVars, scheduleVars>>

\* Time passes on the server.
Advance ==
    /\ \E d \in {CLIENT_LOG_WINDOW_SECONDS \div 2, CLIENT_LOG_WINDOW_SECONDS \div 2 + 1} :
          /\ now + d <= MaxNow
          /\ now' = now + d
    /\ UNCHANGED <<bucket, calls>>
    /\ UNCHANGED <<clientVars, truncVars, scheduleVars>>

LimiterInit ==
    /\ InitLimiter
    /\ IdleClient
    /\ IdleTruncate
    /\ IdleSchedule

LimiterNext ==
    \/ Report
    \/ Advance

LimiterSpec == LimiterInit /\ [][LimiterNext]_vars

\* ------------------------------------------------------------------------
\* The lesson select of the attendance page (client-logger.js 93-140)
\* ------------------------------------------------------------------------
Classes == {"1", "2"}

Dates == {"2024-03-04", "2024-03-05"}

\* the options 1..n, in order
OptionsUpTo(n) == [i \in 1..n |-> i]

\* updateLessonOptions up to its fetch (lines 115-123): the select is
\* emptied; with a class and a date a schedule request goes out.
UpdateLessonOptions(cls, date) ==
    /\ lessonOptions' = <<>>
    /\ IF cls = "" \/ date = ""
       THEN /\ latest' = [request |-> 0, answer |-> "none", lessons |-> 0]
            /\ UNCHANGED <<inflight, issued>>
       ELSE /\ issued' = issued + 1
            /\ inflight' = inflight \cup {issued + 1}
            /\ latest' = [request |-> issued + 1, answer |-> "pending", lessons |-> 0]

InitSchedule ==
    /\ classValue = ""
    /\ dateValue \in Dates
    /\ lessonOptions = <<>>
    /\ inflight = {}
    /\ issued = 0
    /\ latest = [request |-> 0, answer |-> "none", lessons |-> 0]
    /\ messageDiv = ""

\* /api/classes answers (lines 97-108): the options are added, the select
\* shows the first class, and the lesson list is refreshed.
ClassesLoaded ==
    /\ classValue = ""
    /\ issued < MaxRequests
    /\ \E cls \in Classes :
          /\ classValue' = cls
          /\ UpdateLessonOptions(cls, dateValue)
    /\ UNCHANGED <<dateValue, messageDiv>>
    /\ UNCHANGED <<clientVars, truncVars, limiterVars>>

\* 'change' of classSelect (line 112): the user picks another class
ChangeClass ==
    /\ classValue # ""
    /\ issued < MaxRequests
    /\ \E cls \in Classes \ {classValue} :
          /\ classValue' = cls
          /\ UpdateLessonOptions(cls, dateValue)
    /\ UNCHANGED <<dateValue, messageDiv>>
    /\ UNCHANGED <<clientVars, truncVars, limiterVars>>

\* 'change' of dateInput (line 113): the user picks another date, or clears it
ChangeDate ==
    /\ issued < MaxRequests
    /\ \E date \in (Dates \cup {""}) \ {dateValue} :
          /\ dateValue' = date
          /\ UpdateLessonOptions(classValue, date)
    /\ UNCHANGED <<classValue, messageDiv>>
    /\ UNCHANGED <<clientVars, truncVars, limiterVars>>

\* The response to a schedule request arrives (lines 124-139), in any order:
\* the lesson count n of the response, or a failure.
ScheduleResponse ==
    /\ \E request \in inflight, n \in 0..MaxLessons, ok \in BOOLEAN :
          /\ inflight' = inflight \ {request}
          /\ latest' = IF request = latest.request
                       THEN [latest EXCEPT !.answer = IF ok THEN "ok" ELSE "failed",
                                           !.lessons = IF ok THEN n ELSE 0]
                       ELSE latest
          /\ IF ~ok
             THEN /\ messageDiv' = "danger"
                  /\ UNCHANGED lessonOptions
             ELSE IF n = 0
             THEN /\ messageDiv' = "warning"
                  /\ UNCHANGED lessonOptions
             ELSE /\ messageDiv' = ""
                  /\ lessonOptions' = lessonOptions \o OptionsUpTo(n)
    /\ UNCHANGED <<classValue, dateValue, issued>>
    /\ UNCHANGED <<clientVars, truncVars, limiterVars>>

ScheduleInit ==
    /\ InitSchedule
    /\ IdleClient
    /\ IdleTruncate
    /\ IdleLimiter

ScheduleNext ==
    \/ ClassesLoaded
    \/ ChangeClass
    \/ ChangeDate
    \/ ScheduleResponse

ScheduleSpec == ScheduleInit /\ [][ScheduleNext]_vars

\* ------------------------------------------------------------------------
\* Properties of the error reporter
\* ------------------------------------------------------------------------
\* A listener has run and has handed a payload to send.
Sent == last.kind # "none" /\ last.called

\* occurrences of code unit c in s
Count(s, c) == Cardinality({i \in 1..Len(s) : s[i] = c})

\* The value buildPayload was given for field f of the payload
Given(f) ==
    IF f = "message" THEN last.args.v.message ELSE last.args.v.metadata.stack

IsLong(v) == v.t = "string" /\ Len(v.s) > MAX_MESSAGE_LENGTH

\* C1 as stated: a message or stack longer than the maximum is emitted with
\* length maximum + 1, its first 500 code units kept, and the marker occurs
\* exactly once in the field, as its last code unit.
C1_MarkerOccursOnce ==
    Sent =>
        \A f \in {"message", "stack"} :
            IsLong(Given(f)) =>
                LET out == last.built.v[f]
                IN  /\ out.t = "string"
                    /\ Len(out.s) = MAX_MESSAGE_LENGTH + 1
                    /\ SubSeq(out.s, 1, MAX_MESSAGE_LENGTH)
                         = SubSeq(Given(f).s, 1, MAX_MESSAGE_LENGTH)
                    /\ out.s[Len(out.s)] = ELLIPSIS
                    /\ Count(out.s, ELLIPSIS) = 1

\* C1 amended: a message or stack longer than the maximum is emitted with
\* length maximum + 1, its first 500 code units kept and one marker appended
\* as the last code unit; the field holds no marker besides the appended one
\* and those the kept 500 code units of the input already held.
C1_OneMarkerAppended ==
    Sent =>
        \A f \in {"message", "stack"} :
            IsLong(Given(f)) =>
                LET out == last.built.v[f]
                    kept == SubSeq(Given(f).s, 1, MAX_MESSAGE_LENGTH)
                IN  /\ out.t = "string"
                    /\ Len(out.s) = MAX_MESSAGE_LENGTH + 1
                    /\ SubSeq(out.s, 1, MAX_MESSAGE_LENGTH) = kept
                    /\ out.s[Len(out.s)] = ELLIPSIS
                    /\ Count(out.s, ELLIPSIS) = 1 + Count(kept, ELLIPSIS)

\* C1 witness: a payload was built from a long message and a long stack.
C1_Witness ==
    /\ Sent
    /\ IsLong(Given("message"))
    /\ IsLong(Given("stack"))

\* C2: send never surfaces an error: whatever fails inside it (serialization,
\* Blob, sendBeacon, fetch missing or throwing, a rejected fetch promise), no
\* exception leaves send and no rejection of its promise goes unhandled.
C2_SendNeverSurfaces ==
    /\ last.kind # "none" => ~last.sent.escaped
    /\ Sent => ~last.threw
    /\ unhandled = 0

\* C2 witness: a fetch promise has rejected and the latest send was left by an
\* exception inside its try block.
C2_Witness ==
    /\ Sent
    /\ last.sent.raised
    /\ settled.rejected > 0

\* C3: at most one delivery attempt per captured event: the attempts never
\* exceed the captured events, one run of a listener invokes at most one
\* primitive, and no failed delivery comes back as an event of the logger's
\* own making.
C3_AtMostOnce ==
    /\ attempts <= captured
    /\ unhandled = 0
    /\ last.kind # "none" => (~last.own /\ Len(last.sent.calls) <= 1)
    /\ Len(pending) <= attempts

\* C3 witness: two events captured, each delivered once, one of the
\* deliveries failed afterwards.
C3_Witness ==
    /\ captured >= 2
    /\ attempts = captured
    /\ settled.rejected > 0

\* C4 as stated: no run of a listener throws; every event yields a payload.
C4_ListenerNeverThrows ==
    last.kind # "none" => (~last.threw /\ last.called)

\* The message the 'unhandledrejection' listener selects, per C5 as stated
C5_StatedMessage(reason) ==
    IF reason.t = "string" THEN reason
    ELSE IF reason.t = "object" /\ reason.message # Undefined THEN reason.message
    ELSE Str(UnhandledRejection)

\* C5 as stated: the payload message of a rejection is the reason itself when
\* it is a string, the reason's message when a non-string reason carries one,
\* else 'Unhandled promise rejection'; an error event without a message gets
\* 'Script error'.
C5_MessageAsStated ==
    Sent =>
        IF last.kind = "unhandledrejection"
        THEN last.built.v.message = C5_StatedMessage(last.event.reason)
        ELSE ~Truthy(last.event.message) => last.built.v.message = Str(ScriptError)

\* The message selected per C5 amended
C5_AmendedMessage(reason) ==
    IF reason.t = "string" /\ Len(reason.s) > 0 THEN reason
    ELSE IF reason.t = "object" /\ Truthy(reason.message) THEN reason.message
    ELSE Str(UnhandledRejection)

\* C5 amended: the payload message of a rejection is, cut to the maximum
\* length when it is a longer string: the reason when it is a non-empty
\* string, the reason's message when a non-string reason carries a truthy
\* one, else 'Unhandled promise rejection' (also for the empty string and for
\* an empty message); an error event without a message gets 'Script error'.
C5_MessageSelected ==
    Sent =>
        IF last.kind = "unhandledrejection"
        THEN LET m == C5_AmendedMessage(last.event.reason)
             IN  /\ ~IsLong(m) => last.built.v.message = m
                 /\ IsLong(m) =>
                      /\ Len(last.built.v.message.s) = MAX_MESSAGE_LENGTH + 1
                      /\ \A i \in 1..MAX_MESSAGE_LENGTH :
                            last.built.v.message.s[i] = m.s[i]
        ELSE ~Truthy(last.event.message) => last.built.v.message = Str(ScriptError)

\* C5 witness: a payload built from a non-string reason that carries a message
C5_Witness ==
    /\ Sent
    /\ last.kind = "unhandledrejection"
    /\ last.event.reason.t = "object"
    /\ Truthy(last.event.reason.message)

\* the number read from the two decimal digits of s at i, i + 1
TwoDigits(s, i) == (s[i] - 48) * 10 + (s[i + 1] - 48)

\* s is a UTC instant written YYYY-MM-DDTHH:mm:ss.sssZ
IsISO8601(s) ==
    /\ Len(s) = 24
    /\ s[5] = 45 /\ s[8] = 45 /\ s[11] = 84 /\ s[14] = 58 /\ s[17] = 58
    /\ s[20] = 46 /\ s[24] = 90
    /\ \A i \in (1..23) \ {5, 8, 11, 14, 17, 20} : s[i] \in 48..57
    /\ TwoDigits(s, 6) \in 1..12 /\ TwoDigits(s, 9) \in 1..31
    /\ TwoDigits(s, 12) < 24 /\ TwoDigits(s, 15) < 60 /\ TwoDigits(s, 18) < 60

\* milliseconds into its day of the instant an ISO-8601 string names
MsOfDay(s) ==
    TwoDigits(s, 12) * 3600000 + TwoDigits(s, 15) * 60000
        + TwoDigits(s, 18) * 1000 + (s[21] - 48) * 100 + TwoDigits(s, 22)

\* The body of a delivery call holds the payload's fields with the values
\* buildPayload gave them (all but those that are undefined).
Carries(call, payload) ==
    /\ DOMAIN call.body = {k \in DOMAIN payload : payload[k] # Undefined}
    /\ \A k \in DOMAIN call.body : call.body[k] = payload[k]

\* C6 as stated: the payload handed to send has level 'error', a string
\* message and stack, and carries the page address, the user agent and the
\* creation time under url, userAgent and timestamp; what is delivered is
\* the object as buildPayload returned it.
C6_ShapeAsStated ==
    Sent =>
        /\ last.built.v.level = Str(LevelError)
        /\ last.built.v.message.t = "string"
        /\ last.built.v.stack.t = "string"
        /\ {"url", "userAgent", "timestamp"} \subseteq DOMAIN last.built.v
        /\ \A i \in 1..Len(last.sent.calls) : Carries(last.sent.calls[i], last.built.v)

\* C6 amended: the payload handed to send has level 'error', a string stack,
\* a message that is a string unless the event's message or the rejection
\* reason's message is a truthy non-string (then that value), and carries the
\* page address, the
\* user agent and the ISO-8601 creation time under url, ua and ts; what is
\* delivered is the object as buildPayload returned it.
C6_Shape ==
    Sent =>
        /\ DOMAIN last.built.v
             = {"level", "message", "url", "ua", "ts", "stack", "extra"}
        /\ last.built.v.level = Str(LevelError)
        /\ last.built.v.stack.t = "string"
        /\ \/ last.built.v.message.t = "string"
           \/ /\ last.kind = "unhandledrejection"
              /\ last.event.reason.t = "object"
              /\ last.built.v.message = last.event.reason.message
           \/ /\ last.kind = "error"
              /\ last.built.v.message = last.event.message
        /\ last.built.v.url = location
        /\ last.built.v.ua = navigator.userAgent
        /\ last.built.v.ts.t = "string"
        /\ IsISO8601(last.built.v.ts.s)
        /\ MsOfDay(last.built.v.ts.s) = last.at
        /\ \A i \in 1..Len(last.sent.calls) : Carries(last.sent.calls[i], last.built.v)

\* C6 witness: a payload whose message is not a string, built after the
\* clock has advanced, was delivered
C6_Witness ==
    /\ Sent
    /\ last.built.v.message.t = "number"
    /\ last.at > 0
    /\ Len(last.sent.calls) = 1

\* C7 as stated: every call of send chooses exactly one delivery primitive,
\* sendBeacon when it is available and fetch (POST to the endpoint,
\* keepalive, not awaited) only when it is not.
C7_ExactlyOneChosen ==
    Sent =>
        /\ last.sent.chose = IF navigator.sendBeacon THEN "sendBeacon" ELSE "fetch"
        /\ Len(last.sent.calls) <= 1

\* C7 amended: every call of send whose payload serializes chooses exactly
\* one delivery primitive, sendBeacon when it is available and fetch (POST to
\* the endpoint, keepalive, its promise left pending) only when it is not; a
\* call whose payload does not serialize chooses none; no call invokes more
\* than one primitive and none but the chosen one.
C7_OnePrimitive ==
    Sent =>
        /\ last.sent.chose =
              IF \E k \in DOMAIN last.built.v : last.built.v[k].t = "bigint"
              THEN "none"
              ELSE IF navigator.sendBeacon THEN "sendBeacon" ELSE "fetch"
        /\ Len(last.sent.calls) <= 1
        /\ \A i \in 1..Len(last.sent.calls) :
              LET call == last.sent.calls[i]
              IN  /\ call.api = last.sent.chose
                  /\ call.url = ENDPOINT
                  /\ call.api = "fetch" =>
                        /\ call.method = "POST"
                        /\ call.keepalive
                        /\ ~last.sent.raised => last.sent.promise = "caught"
        /\ (last.sent.chose = "sendBeacon" /\ last.out.blob = "ok")
              => Len(last.sent.calls) = 1
        /\ (last.sent.chose = "fetch" /\ last.out.fetch # "missing")
              => Len(last.sent.calls) = 1

\* C7 witness: sendBeacon was invoked and returned false; no fetch followed.
C7_Witness ==
    /\ Sent
    /\ last.sent.chose = "sendBeacon"
    /\ Len(last.sent.calls) = 1
    /\ last.out.beacon = "false"

\* ------------------------------------------------------------------------
\* Properties of truncate
\* ------------------------------------------------------------------------
\* C9: truncate is idempotent and leaves short input alone: truncating an
\* already truncated value gives that value back, a string of at most 500
\* code units (exactly 500 included) is returned as it is, and so is every
\* value that is not a string.
C9_TruncateIdempotent ==
    /\ \A i \in 2..Len(tResults) : tResults[i] = tResults[1]
    /\ (tResults # <<>> /\ ~IsLong(tValue)) => tResults[1] = tValue
    /\ (tResults # <<>> /\ IsLong(tValue)) =>
          /\ tResults[1].t = "string"
          /\ Len(tResults[1].s) = MAX_MESSAGE_LENGTH + 1
          /\ Count(tResults[1].s, ELLIPSIS)
               = 1 + Count(SubSeq(tValue.s, 1, MAX_MESSAGE_LENGTH), ELLIPSIS)

\* C9 witness: a string over the limit was truncated, and the result was
\* truncated again.
C9_Witness ==
    /\ IsLong(tValue)
    /\ Len(tResults) >= 2
    /\ tResults[1] # tValue

\* ------------------------------------------------------------------------
\* Properties of the rate limiter
\* ------------------------------------------------------------------------
\* the reports i..j of the source
Reports(i, j) == {k \in i..j : k >= 1 /\ k <= Len(calls)}

Admitted(S) == {k \in S : calls[k].admit}

\* Report i finds the source without recent activity: nothing of it was
\* recorded in the window before it.
Fresh(i) ==
    \A k \in 1..(i - 1) : calls[k].t < calls[i].t - CLIENT_LOG_WINDOW_SECONDS

\* C8: of N > limit reports of one source within one window (limit 10,
\* window 60 s) exactly limit are admitted, the first ones, and the rest are
\* rejected; a rejected report is not recorded and takes no capacity: a
\* report is admitted exactly when fewer than limit admitted reports lie in
\* the window that ends with it.
C8_LimitPerWindow ==
    /\ \A i \in 1..Len(calls), j \in 1..Len(calls) :
          (/\ i <= j
           /\ Fresh(i)
           /\ calls[j].t - calls[i].t <= CLIENT_LOG_WINDOW_SECONDS
           /\ j - i + 1 > CLIENT_LOG_RATE_LIMIT)
          => /\ Cardinality(Admitted(Reports(i, j))) = CLIENT_LOG_RATE_LIMIT
             /\ Admitted(Reports(i, j)) = i..(i + CLIENT_LOG_RATE_LIMIT - 1)
    /\ \A j \in 1..Len(calls) :
          calls[j].admit <=>
             Cardinality({k \in Admitted(Reports(1, j - 1)) :
                             calls[k].t >= calls[j].t - CLIENT_LOG_WINDOW_SECONDS})
               < CLIENT_LOG_RATE_LIMIT
    /\ Len(bucket) <= CLIENT_LOG_RATE_LIMIT
    /\ Len(bucket) <= Cardinality(Admitted(Reports(1, Len(calls))))

\* C8 witness: more than limit reports in one window, one of them rejected,
\* and a later report admitted once the window has moved on.
C8_Witness ==
    /\ Len(calls) > CLIENT_LOG_RATE_LIMIT + 1
    /\ calls[CLIENT_LOG_RATE_LIMIT + 1].t - calls[1].t <= CLIENT_LOG_WINDOW_SECONDS
    /\ ~calls[CLIENT_LOG_RATE_LIMIT + 1].admit
    /\ calls[Len(calls)].admit

\* ------------------------------------------------------------------------
\* Properties of the lesson select
\* ------------------------------------------------------------------------
\* C10: once no schedule response is outstanding, the lesson select holds
\* exactly the options 1..n of the response to the most recent change event,
\* each once.
C10_SelectShowsLatest ==
    (inflight = {} /\ latest.answer = "ok")
        => lessonOptions = OptionsUpTo(latest.lessons)
====
